---- MODULE Spec2Model ----
(***************************************************************************)
(* Verification model of Kern--/advent-2017 (Rust).                        *)
(*                                                                         *)
(* The repository is a set of independent puzzle solutions.  Each part of  *)
(* this module models one of them as a small state machine and has its own *)
(* specification:                                                          *)
(*   Spec, FairSpec  day18  Interpreter::execute (two linked toy CPUs)     *)
(*   SpecKnot        day10  Knot::compute_hash                             *)
(*   SpecFirewall    day13  Firewall::compute_severity and                 *)
(*                          compute_min_safe_delay                         *)
(*   SpecStream      day9   Group::from_str and the two totals             *)
(*   SpecHex         day11  compute_distance                               *)
(*   SpecParticles   day20  simulate                                       *)
(*   SpecTie         day10  Knot::tie                                      *)
(*   SpecLocks       day17  SpinLock and PseudoSpinLock short_circuit      *)
(*   SpecDance       day16  Dance::dance_repeatedly                        *)
(*   SpecSteps       day16  Dance::step                                    *)
(*   FairSpecBanks   day6   detect_redistribution_loop                     *)
(*   SpecMaze        day5   compute_steps_to_exit_simple_maze / _complex_  *)
(*   SpecQueues      processor::Environment send and receive               *)
(* A specification leaves the variables of the other parts untouched.      *)
(***************************************************************************)
EXTENDS Integers, Naturals, Sequences, FiniteSets, TLC

VARIABLES
    \* day18
    instructions,      \* Rc<Vec<Box<Instruction>>> shared by both programs
    envs,              \* envs[p] = [state, rcv]: Environment of program p
    instruction_count, \* instruction_count[p][type]
    made_progress,     \* local of execute
    halted,            \* halted[p]: program_zero_halted / program_one_halted
    loc,               \* position of execute: "outer", "zero", "one", "done"
    \* the build
    overflow_checks,   \* build profile: TRUE = arithmetic overflow panics
    \* day10
    lengths,           \* argument of compute_hash
    knot,              \* Knot: [data, pos, skip]
    k_round,           \* rounds of compute_hash completed
    k_pc,              \* position of compute_hash
    dense_hash,        \* its result
    \* day13
    fw_layers,         \* Firewall.layers
    fw_delay,          \* argument of compute_severity
    fw_severity,       \* result of compute_severity
    fw_scan,           \* loop variable `delay` of compute_min_safe_delay
    fw_min,            \* result of compute_min_safe_delay
    fw_pc,
    \* day9
    stream,            \* argument of Group::from_str
    group,             \* its result, an Option<Group>
    s_totals,          \* [score, garbage] of the parsed group
    s_pc,
    \* day11
    path,              \* argument of compute_distance, split at ","
    hx_result,         \* (current_distance, max_distance)
    hx_pc,
    \* day20
    p_input,           \* argument of simulate, split at "\n"
    p_result,          \* its result
    p_pc,
    \* day10, Knot::tie alone
    t_knot,            \* Knot: [data, pos, skip]
    t_length,          \* argument of the last tie
    t_ties,            \* calls of tie so far
    t_pc,
    \* day17
    sl_step_size,      \* argument of SpinLock::new and PseudoSpinLock::new
    sl_steps,          \* argument of both short_circuit calls
    spin,              \* SpinLock and the position of its short_circuit
    pseudo,            \* PseudoSpinLock and the position of its short_circuit
    \* day16, Dance::dance_repeatedly
    d_size,            \* argument of Dance::new_sized
    d_steps,           \* the parsed steps of the input
    d_repetitions,     \* argument `repetitions`
    dance,             \* Dance: [offset, programs]
    d_i,               \* loop variable i of the first loop
    starting_states,   \* HashMap: displayed order -> i
    d_remaining,       \* local `remaining`
    d_j,               \* passes of the second loop made
    d_pc,
    \* day16, Dance::step
    st_dance,          \* Dance: [offset, programs]
    st_step,           \* the step of the last call
    st_pc,
    \* day6
    m_input,           \* the banks detect_redistribution_loop is called with
    memory,            \* the slice, as the loop has changed it
    cycles,            \* local `cycles`
    previous_states,   \* HashSet<String>
    m_pc,
    \* day5
    mz_input,          \* the maze the function is called with
    mz_complex,        \* TRUE: compute_steps_to_exit_complex_maze
    maze,              \* the slice, as the loop has changed it
    mz_i,              \* local `i`
    mz_steps,          \* local `steps`
    mz_pc,
    \* processor::Environment, its queues
    q_envs,            \* q_envs[e] = [linked_env, rcv]
    q_calls            \* the calls of link, send and receive, with results

vars18 == <<instructions, envs, instruction_count, made_progress, halted, loc>>

varsBuild == <<overflow_checks>>

vars10 == <<lengths, knot, k_round, k_pc, dense_hash>>

vars13 == <<fw_layers, fw_delay, fw_severity, fw_scan, fw_min, fw_pc>>

vars9 == <<stream, group, s_totals, s_pc>>

vars11 == <<path, hx_result, hx_pc>>

vars20 == <<p_input, p_result, p_pc>>

varsTie == <<t_knot, t_length, t_ties, t_pc>>

vars17 == <<sl_step_size, sl_steps, spin, pseudo>>

vars16 == <<d_size, d_steps, d_repetitions, dance, d_i, starting_states,
            d_remaining, d_j, d_pc>>

varsStep == <<st_dance, st_step, st_pc>>

vars6 == <<m_input, memory, cycles, previous_states, m_pc>>

vars5 == <<mz_input, mz_complex, maze, mz_i, mz_steps, mz_pc>>

varsEnv == <<q_envs, q_calls>>

\* the first six parts
varsFirst == <<vars18, vars10, vars13, vars9, vars11, vars20>>

\* the parts whose specifications come after them
varsMore == <<varsTie, vars17, vars16, varsStep, vars6, vars5, varsEnv>>

vars == <<varsBuild, vars18, vars10, vars13, vars9, vars11, vars20, varsMore>>

(***************************************************************************)
(* Generic helpers                                                         *)
(***************************************************************************)
Abs(n) == IF n < 0 THEN -n ELSE n

\* Option<i64>: None and Some(v)
None == [some |-> FALSE, v |-> 0]

Some(v) == [some |-> TRUE, v |-> v]

(***************************************************************************)
(* day18: processor::Value, processor::Environment, the instructions,      *)
(* Program::step and Interpreter::execute                                  *)
(***************************************************************************)
Others18 == <<varsBuild, vars10, vars13, vars9, vars11, vars20, varsMore>>

\* bounds of the day18 model
ProgLen == 3

MaxSteps == 6

Programs == {0, 1}

RegNames == {"a", "p", "pc"}

InstructionTypes == {"Snd", "Set", "Add", "Mul", "Mod", "Rcv", "Jgz", "Halt"}

\* processor::Value
Literal(n) == [kind |-> "Literal", n |-> n, name |-> ""]

Register(s) == [kind |-> "Register", n |-> 0, name |-> s]

\* an instruction: snd has a value, rcv a register, jgz a condition and a
\* value, the others a register and a value; unused fields hold a filler
NoValue == Literal(0)

Instr(t, reg, cond, val) ==
    [type |-> t, register |-> reg, condition |-> cond, value |-> val]

\* the instructions the model's programs are built from
Alphabet ==
    { Instr("Snd", "", NoValue, Register("a")),
      Instr("Snd", "", NoValue, Register("p")),
      Instr("Set", "a", NoValue, Literal(1)),
      Instr("Add", "a", NoValue, Literal(-1)),
      Instr("Mul", "a", NoValue, Register("p")),
      Instr("Rcv", "a", NoValue, NoValue),
      Instr("Jgz", "", Register("a"), Literal(-1)),
      Instr("Jgz", "", Register("p"), Literal(2)) }

\* Environment::get (a missing register is inserted as 0, so it reads as 0)
EnvGet(env, register) == env.state[register]

\* Environment::get_value
EnvGetValue(env, value) ==
    IF value.kind = "Literal" THEN value.n ELSE EnvGet(env, value.name)

\* Environment::set
EnvSet(env, register, value) ==
    [env EXCEPT !.state = [@ EXCEPT ![register] = value]]

\* Environment::get_pc
EnvGetPc(env) == EnvGet(env, "pc")

\* Environment::jump_pc: pc + offset - 1
EnvJumpPc(env, offset) == EnvSet(env, "pc", EnvGet(env, "pc") + offset - 1)

\* Environment::step_pc
EnvStepPc(env) == EnvJumpPc(env, 1 + 1)

\* Environment::send from program p: push_back on the linked environment
EnvSend(es, p, value) ==
    [es EXCEPT ![1 - p] = [@ EXCEPT !.rcv = Append(@, value)]]

\* a receive that takes the newest value: pop_back
EnvReceiveNewest(env) ==
    IF env.rcv = <<>>
    THEN [env |-> env, result |-> None]
    ELSE [env |-> [env EXCEPT !.rcv = SubSeq(@, 1, Len(@) - 1)],
          result |-> Some(env.rcv[Len(env.rcv)])]

\* Environment::receive: pop_front
EnvReceive(env) ==
    IF env.rcv = <<>>
    THEN [env |-> env, result |-> None]
    ELSE [env |-> [env EXCEPT !.rcv = Tail(@)], result |-> Some(Head(env.rcv))]

\* i64 remainder (truncated: the sign follows the dividend)
Rem(a, b) == IF a >= 0 THEN a % Abs(b) ELSE -((-a) % Abs(b))

\* Instruction::execute of each instruction type, run by program p.
\* Returns the environments and the Option<i64> result.
ExecSet(es, p, i) ==
    LET value == EnvGetValue(es[p], i.value)
    IN [envs |-> [es EXCEPT ![p] = EnvSet(@, i.register, value)],
        result |-> Some(value)]

ExecAdd(es, p, i) ==
    LET new_value == EnvGet(es[p], i.register) + EnvGetValue(es[p], i.value)
    IN [envs |-> [es EXCEPT ![p] = EnvSet(@, i.register, new_value)],
        result |-> Some(new_value)]

ExecMul(es, p, i) ==
    LET new_value == EnvGet(es[p], i.register) * EnvGetValue(es[p], i.value)
    IN [envs |-> [es EXCEPT ![p] = EnvSet(@, i.register, new_value)],
        result |-> Some(new_value)]

ExecRem(es, p, i) ==
    LET new_value == Rem(EnvGet(es[p], i.register), EnvGetValue(es[p], i.value))
    IN [envs |-> [es EXCEPT ![p] = EnvSet(@, i.register, new_value)],
        result |-> Some(new_value)]

ExecJgz(es, p, i) ==
    LET reg_value == EnvGetValue(es[p], i.condition)
        offset == EnvGetValue(es[p], i.value)
    IN IF reg_value > 0
       THEN [envs |-> [es EXCEPT ![p] = EnvJumpPc(@, offset)],
             result |-> Some(offset)]
       ELSE [envs |-> es, result |-> None]

\* snd of the two-program variant: the value goes to the linked environment
ExecSnd(es, p, i) ==
    LET value == EnvGetValue(es[p], i.value)
    IN [envs |-> EnvSend(es, p, value), result |-> Some(value)]

\* rcv of the two-program variant: takes the next queued value; with an
\* empty queue it yields None and the pc goes back to this rcv
ExecRcv(es, p, i) ==
    LET r == EnvReceive(es[p])
    IN IF r.result.some
       THEN [envs |-> [es EXCEPT ![p] = EnvSet(r.env, i.register, r.result.v)],
             result |-> r.result]
       ELSE [envs |-> [es EXCEPT ![p] = EnvJumpPc(@, 0)], result |-> None]

Execute(es, p, i) ==
    CASE i.type = "Snd" -> ExecSnd(es, p, i)
      [] i.type = "Set" -> ExecSet(es, p, i)
      [] i.type = "Add" -> ExecAdd(es, p, i)
      [] i.type = "Mul" -> ExecMul(es, p, i)
      [] i.type = "Mod" -> ExecRem(es, p, i)
      [] i.type = "Rcv" -> ExecRcv(es, p, i)
      [] i.type = "Jgz" -> ExecJgz(es, p, i)

\* Program::step of program p: [envs, counts, type, result]
ProgramStep(es, counts, p) ==
    LET pc == EnvGetPc(es[p])
    IN IF pc < 0 \/ pc >= Len(instructions)
       THEN [envs |-> es, counts |-> counts, type |-> "Halt", result |-> None]
       ELSE LET instruction == instructions[pc + 1]
                r == Execute([es EXCEPT ![p] = EnvStepPc(@)], p, instruction)
            IN [envs |-> r.envs,
                counts |-> IF r.result # None
                           THEN [counts EXCEPT ![p][instruction.type] = @ + 1]
                           ELSE counts,
                type |-> instruction.type,
                result |-> r.result]

\* an inner loop that leaves after every instruction
LoopSingleStep(instruction_type, value) ==
    [halt |-> instruction_type = "Halt",
     exit |-> TRUE,
     progress |-> ~(instruction_type = "Halt")
                  /\ ~(instruction_type = "Rcv" /\ value = None)]

\* an inner loop that also sets the halted flag when the program blocks
LoopBlockHalts(instruction_type, value) ==
    [halt |-> instruction_type = "Halt"
              \/ (instruction_type = "Rcv" /\ value = None),
     exit |-> instruction_type = "Halt"
              \/ (instruction_type = "Rcv" /\ value = None),
     progress |-> ~(instruction_type = "Halt")
                  /\ ~(instruction_type = "Rcv" /\ value = None)]

\* what one iteration of an inner loop of execute does with the step's
\* outcome: set the halted flag, leave the loop, record progress
LoopOutcome(instruction_type, value) ==
    [halt |-> instruction_type = "Halt",
     exit |-> instruction_type = "Halt"
              \/ (instruction_type = "Rcv" /\ value = None),
     progress |-> ~(instruction_type = "Halt")
                  /\ ~(instruction_type = "Rcv" /\ value = None)]

\* Interpreter::new
NewEnvs == [p \in Programs |->
              [state |-> [r \in RegNames |-> IF r = "p" THEN p ELSE 0],
               rcv |-> <<>>]]

Init18 ==
    /\ instructions \in [1..ProgLen -> Alphabet]
    /\ envs = NewEnvs
    /\ instruction_count = [p \in Programs |-> [t \in InstructionTypes |-> 0]]
    /\ made_progress = TRUE
    /\ halted = [p \in Programs |-> FALSE]
    /\ loc = "outer"

\* program p is halted: its pc is outside the instruction list
Halted(p) ==
    EnvGetPc(envs[p]) < 0 \/ EnvGetPc(envs[p]) >= Len(instructions)

\* program p is blocked: its next instruction is a rcv and its queue is empty
Blocked(p) ==
    /\ ~Halted(p)
    /\ instructions[EnvGetPc(envs[p]) + 1].type = "Rcv"
    /\ envs[p].rcv = <<>>

CanRun(p) == ~Halted(p) /\ ~Blocked(p)

RECURSIVE SumOver(_, _)
SumOver(f, S) ==
    IF S = {} THEN 0
    ELSE LET x == CHOOSE y \in S : TRUE IN f[x] + SumOver(f, S \ {x})

Executed(p) == SumOver(instruction_count[p], InstructionTypes)

LocOf(p) == IF p = 0 THEN "zero" ELSE "one"

AfterLoop(p) == IF p = 0 THEN "one" ELSE "outer"

\* `while made_progress`: start a pass, or return
OuterPass ==
    /\ loc = "outer"
    /\ made_progress
    /\ made_progress' = FALSE
    /\ loc' = "zero"
    /\ UNCHANGED <<instructions, envs, instruction_count, halted>>
    /\ UNCHANGED Others18

Return ==
    /\ loc = "outer"
    /\ ~made_progress
    /\ loc' = "done"
    /\ UNCHANGED <<instructions, envs, instruction_count, made_progress, halted>>
    /\ UNCHANGED Others18

\* `while !program_X_halted` is false: the loop is skipped
LoopSkip(p) ==
    /\ loc = LocOf(p)
    /\ halted[p]
    /\ loc' = AfterLoop(p)
    /\ UNCHANGED <<instructions, envs, instruction_count, made_progress, halted>>
    /\ UNCHANGED Others18

\* one iteration of the inner loop of program p
LoopIter(p) ==
    /\ loc = LocOf(p)
    /\ ~halted[p]
    /\ CanRun(p) => Executed(p) < MaxSteps
    /\ LET s == ProgramStep(envs, instruction_count, p)
           o == LoopOutcome(s.type, s.result)
       IN /\ envs' = s.envs
          /\ instruction_count' = s.counts
          /\ halted' = IF o.halt THEN [halted EXCEPT ![p] = TRUE] ELSE halted
          /\ made_progress' = IF o.progress THEN TRUE ELSE made_progress
          /\ loc' = IF o.exit THEN AfterLoop(p) ELSE loc
    /\ UNCHANGED instructions
    /\ UNCHANGED Others18

ZeroIter == LoopIter(0)

ZeroSkip == LoopSkip(0)

OneIter == LoopIter(1)

OneSkip == LoopSkip(1)

Next18 == OuterPass \/ ZeroIter \/ ZeroSkip \/ OneIter \/ OneSkip \/ Return


(***************************************************************************)
(* day10: Knot                                                             *)
(***************************************************************************)
Others10 == <<varsBuild, vars18, vars13, vars9, vars11, vars20, varsMore>>

\* bounds of the day10 model: compute_hash is run on every list of at most
\* MaxLengths bytes drawn from LengthBytes
MaxLengths == 2

LengthBytes == {0, 3, 49}

\* program constants
Rounds == 64

DenseLen == 16

BlockLen == 16

KnotArg == 255

UsizeBits == 64

\* b^e mod n, computed without leaving the small integers
RECURSIVE PowMod(_, _, _)
PowMod(b, e, n) == IF e = 0 THEN 1 % n ELSE (b * PowMod(b, e - 1, n)) % n

\* (2^bits - 1) mod n: what an unsigned 0 - 1 of that width leaves mod n
WrappedMinusOneMod(bits, n) == (PowMod(2, bits, n) + n - 1) % n

\* Knot::new(len): the elements 0 ..= len, as a function on 0 .. len
KnotNew(len) == [data |-> [i \in 0..len |-> i], pos |-> 0, skip |-> 0]

DataLen(k) == Cardinality(DOMAIN k.data)

\* the swap loop of tie
RECURSIVE TieSwaps(_, _, _, _, _)
TieSwaps(data, start, end, steps, data_len) ==
    IF steps = 0 THEN data
    ELSE TieSwaps([data EXCEPT ![start] = data[end], ![end] = data[start]],
                  (start + 1) % data_len,
                  (data_len + end - 1) % data_len,
                  steps - 1, data_len)

\* Knot::tie.  `self.pos + length - 1` is computed on usize: when
\* pos + length = 0 the subtraction overflows, which panics in a build with
\* overflow checks and wraps to 2^64 - 1 in a build without.
Tie(k, length, checks) ==
    LET data_len == DataLen(k)
        underflow == k.pos + length = 0
        end == IF underflow
               THEN WrappedMinusOneMod(UsizeBits, data_len)
               ELSE (k.pos + length - 1) % data_len
        steps == length \div 2
    IN IF underflow /\ checks
       THEN [panic |-> TRUE, knot |-> k]
       ELSE [panic |-> FALSE,
             knot |-> [data |-> TieSwaps(k.data, k.pos, end, steps, data_len),
                       pos |-> (k.pos + length + k.skip) % data_len,
                       skip |-> k.skip + 1]]

\* Knot::compute_round: tie every length of the list, from index i on
RECURSIVE ComputeRoundFrom(_, _, _, _)
ComputeRoundFrom(k, list, i, checks) ==
    IF i > Len(list) THEN [panic |-> FALSE, knot |-> k]
    ELSE LET t == Tie(k, list[i], checks)
         IN IF t.panic THEN t
            ELSE ComputeRoundFrom(t.knot, list, i + 1, checks)

ComputeRound(k, list, checks) == ComputeRoundFrom(k, list, 1, checks)

\* `secret` of compute_hash
Secret == <<17, 31, 73, 47, 23>>

\* u8 ^ u8
RECURSIVE Xor(_, _)
Xor(a, b) ==
    IF a = 0 /\ b = 0 THEN 0
    ELSE (((a % 2) + (b % 2)) % 2) + 2 * Xor(a \div 2, b \div 2)

\* the inner loop of the dense hash: dense_hash[i] ^= data[i*16 + j], j from 0
RECURSIVE DenseByte(_, _, _, _)
DenseByte(data, i, j, acc) ==
    IF j = BlockLen THEN acc
    ELSE DenseByte(data, i, j + 1, Xor(acc, data[i * BlockLen + j]))

DenseHash(data) == [i \in 1..DenseLen |-> DenseByte(data, i - 1, 0, 0)]

Init10 ==
    /\ \E n \in 0..MaxLengths : lengths \in [1..n -> LengthBytes]
    /\ knot = KnotNew(KnotArg)
    /\ k_round = 0
    /\ k_pc = "lengths"
    /\ dense_hash = <<>>

\* self.compute_round(lengths) of one round
RoundLengths ==
    /\ k_pc = "lengths"
    /\ LET r == ComputeRound(knot, lengths, overflow_checks)
       IN /\ knot' = r.knot
          /\ k_pc' = IF r.panic THEN "panic" ELSE "secret"
    /\ UNCHANGED <<lengths, k_round, dense_hash>>
    /\ UNCHANGED Others10

\* self.compute_round(&secret) of one round, and the loop's test
RoundSecret ==
    /\ k_pc = "secret"
    /\ LET r == ComputeRound(knot, Secret, overflow_checks)
       IN /\ knot' = r.knot
          /\ k_round' = k_round + 1
          /\ k_pc' = IF r.panic THEN "panic"
                     ELSE IF k_round + 1 = Rounds THEN "dense" ELSE "lengths"
    /\ UNCHANGED <<lengths, dense_hash>>
    /\ UNCHANGED Others10

\* the dense hash and the return
Dense ==
    /\ k_pc = "dense"
    /\ dense_hash' = DenseHash(knot.data)
    /\ k_pc' = "done"
    /\ UNCHANGED <<lengths, knot, k_round>>
    /\ UNCHANGED Others10

NextKnot == RoundLengths \/ RoundSecret \/ Dense

(***************************************************************************)
(* day13: Firewall                                                         *)
(***************************************************************************)
Others13 == <<varsBuild, vars18, vars10, vars9, vars11, vars20, varsMore>>

\* bounds of the day13 model: firewalls of 1..MaxLayers layers with
\* positions 0..MaxDepth and ranges 0..MaxRange, delays 0..MaxDelay
MaxLayers == 2

MaxDepth == 2

MaxRange == 3

MaxDelay == 2

\* Stands for u32::MAX, the end of the scan of compute_min_safe_delay.  The
\* catches of a firewall repeat with the least common multiple of its
\* periods 2 * (range - 1), which stays below DelayLimit for the ranges of
\* the model: a scan that finds nothing below DelayLimit finds nothing below
\* u32::MAX either.
DelayLimit == 16

Layer(p, r) == [position |-> p, range |-> r]

\* results of operations that may panic
Ok(v) == [panic |-> FALSE, v |-> v]

Panic == [panic |-> TRUE, v |-> 0]

\* Firewall::is_caught.  On u64: range - 1 overflows for range 0, a panic
\* with overflow checks; without them it wraps to 2^64 - 1 and the product
\* to 2^64 - 2, a period that only the sum 0 is a multiple of.  The
\* remainder by 2 * (1 - 1) = 0 panics in every build.
IsCaught(layer, delay, checks) ==
    IF layer.range = 0
    THEN IF checks THEN Panic ELSE Ok(layer.position + delay = 0)
    ELSE LET period == 2 * (layer.range - 1)
         IN IF period = 0 THEN Panic
            ELSE Ok((layer.position + delay) % period = 0)

\* Firewall::compute_severity: filter, map and sum over all the layers
RECURSIVE SeverityFrom(_, _, _, _, _)
SeverityFrom(layers, i, delay, checks, sum) ==
    IF i > Len(layers) THEN Ok(sum)
    ELSE LET c == IsCaught(layers[i], delay, checks)
         IN IF c.panic THEN Panic
            ELSE SeverityFrom(layers, i + 1, delay, checks,
                              IF c.v THEN sum + layers[i].position * layers[i].range
                              ELSE sum)

ComputeSeverity(layers, delay, checks) == SeverityFrom(layers, 1, delay, checks, 0)

\* `any` over the layers: stops at the first layer that catches
RECURSIVE AnyCaughtFrom(_, _, _, _)
AnyCaughtFrom(layers, i, delay, checks) ==
    IF i > Len(layers) THEN Ok(FALSE)
    ELSE LET c == IsCaught(layers[i], delay, checks)
         IN IF c.panic THEN Panic
            ELSE IF c.v THEN Ok(TRUE)
            ELSE AnyCaughtFrom(layers, i + 1, delay, checks)

AnyCaught(layers, delay, checks) == AnyCaughtFrom(layers, 1, delay, checks)

LayerKinds == {Layer(p, r) : p \in 0..MaxDepth, r \in 0..MaxRange}

Init13 ==
    /\ \E n \in 1..MaxLayers : fw_layers \in [1..n -> LayerKinds]
    /\ fw_delay \in 0..MaxDelay
    /\ fw_severity = Ok(0)
    /\ fw_scan = 0
    /\ fw_min = Ok(0)
    /\ fw_pc = "severity"

\* firewall.compute_severity(fw_delay)
Severity ==
    /\ fw_pc = "severity"
    /\ fw_severity' = ComputeSeverity(fw_layers, fw_delay, overflow_checks)
    /\ fw_pc' = "scan"
    /\ UNCHANGED <<fw_layers, fw_delay, fw_scan, fw_min>>
    /\ UNCHANGED Others13

\* compute_min_safe_delay: the delay is caught by some layer, `continue`
ScanContinue ==
    /\ fw_pc = "scan"
    /\ fw_scan < DelayLimit
    /\ LET c == AnyCaught(fw_layers, fw_scan, overflow_checks)
       IN ~c.panic /\ c.v
    /\ fw_scan' = fw_scan + 1
    /\ UNCHANGED <<fw_layers, fw_delay, fw_severity, fw_min, fw_pc>>
    /\ UNCHANGED Others13

\* compute_min_safe_delay: no layer catches, `return delay`
ScanReturn ==
    /\ fw_pc = "scan"
    /\ fw_scan < DelayLimit
    /\ LET c == AnyCaught(fw_layers, fw_scan, overflow_checks)
       IN ~c.panic /\ ~c.v
    /\ fw_min' = Ok(fw_scan)
    /\ fw_pc' = "done"
    /\ UNCHANGED <<fw_layers, fw_delay, fw_severity, fw_scan>>
    /\ UNCHANGED Others13

\* compute_min_safe_delay: is_caught panics
ScanPanic ==
    /\ fw_pc = "scan"
    /\ fw_scan < DelayLimit
    /\ AnyCaught(fw_layers, fw_scan, overflow_checks).panic
    /\ fw_min' = Panic
    /\ fw_pc' = "done"
    /\ UNCHANGED <<fw_layers, fw_delay, fw_severity, fw_scan>>
    /\ UNCHANGED Others13

\* compute_min_safe_delay: the range of delays is used up, the final `0`
ScanExhausted ==
    /\ fw_pc = "scan"
    /\ fw_scan = DelayLimit
    /\ fw_min' = Ok(0)
    /\ fw_pc' = "done"
    /\ UNCHANGED <<fw_layers, fw_delay, fw_severity, fw_scan>>
    /\ UNCHANGED Others13

NextFirewall == Severity \/ ScanContinue \/ ScanReturn \/ ScanPanic \/ ScanExhausted

(***************************************************************************)
(* day9: Group                                                             *)
(***************************************************************************)
Others9 == <<varsBuild, vars18, vars10, vars13, vars11, vars20, varsMore>>

\* bound of the day9 model: every stream of at most MaxStream characters
MaxStream == 6

\* the characters of the model's streams; "a" is any other character
StreamChars == {"{", "}", ",", "<", ">", "!", "a"}

\* Option<Group>: None is <<>>, Some(g) is <<g>>
NoGroup == <<>>

SomeGroup(g) == <<g>>

\* a consume_ignored that leaves the character after a "!" in the stream
ConsumeIgnoredNothing(s, pos) == pos

\* consume_ignored: one call of next(), which yields nothing at the end
ConsumeIgnored(s, pos) == IF pos <= Len(s) THEN pos + 1 ELSE pos

\* consume_garbage, reading on from pos: [count, pos]
RECURSIVE ConsumeGarbage(_, _, _)
ConsumeGarbage(s, pos, garbage_count) ==
    IF pos > Len(s) THEN [count |-> garbage_count, pos |-> pos]
    ELSE IF s[pos] = "!"
         THEN ConsumeGarbage(s, ConsumeIgnored(s, pos + 1), garbage_count)
    ELSE IF s[pos] = ">" THEN [count |-> garbage_count, pos |-> pos + 1]
    ELSE ConsumeGarbage(s, pos + 1, garbage_count + 1)

\* Group::from_consumer, reading on from pos: [group, pos].  GroupLoop is
\* its `while let` loop.
RECURSIVE FromConsumer(_, _, _)
RECURSIVE GroupLoop(_, _, _, _, _)
GroupLoop(s, pos, score, sub_groups, garbage_count) ==
    IF pos > Len(s) THEN [group |-> NoGroup, pos |-> pos]
    ELSE CASE s[pos] = "{" ->
                LET r == FromConsumer(s, pos + 1, score)
                IN GroupLoop(s, r.pos, score, Append(sub_groups, r.group),
                             garbage_count)
           [] s[pos] = "<" ->
                LET g == ConsumeGarbage(s, pos + 1, 0)
                IN GroupLoop(s, g.pos, score, sub_groups, garbage_count + g.count)
           [] s[pos] = "!" ->
                GroupLoop(s, ConsumeIgnored(s, pos + 1), score, sub_groups,
                          garbage_count)
           [] s[pos] = "}" ->
                [group |-> SomeGroup([score |-> score, sub_groups |-> sub_groups,
                                      garbage_count |-> garbage_count]),
                 pos |-> pos + 1]
           [] s[pos] = "," ->
                GroupLoop(s, pos + 1, score, sub_groups, garbage_count)
           [] OTHER -> [group |-> NoGroup, pos |-> pos + 1]

FromConsumer(s, pos, parent_score) == GroupLoop(s, pos, parent_score + 1, <<>>, 0)

\* Group::from_str
FromStr(s) ==
    IF Len(s) >= 1 /\ s[1] = "{" THEN FromConsumer(s, 2, 0).group ELSE NoGroup

\* Group::compute_total_score
RECURSIVE ComputeTotalScore(_)
RECURSIVE SumScores(_, _)
SumScores(sub_groups, i) ==
    IF i > Len(sub_groups) THEN 0
    ELSE (IF sub_groups[i] = NoGroup THEN 0
          ELSE ComputeTotalScore(sub_groups[i][1]))
         + SumScores(sub_groups, i + 1)

ComputeTotalScore(g) == g.score + SumScores(g.sub_groups, 1)

\* Group::compute_total_garbage
RECURSIVE ComputeTotalGarbage(_)
RECURSIVE SumGarbage(_, _)
SumGarbage(sub_groups, i) ==
    IF i > Len(sub_groups) THEN 0
    ELSE (IF sub_groups[i] = NoGroup THEN 0
          ELSE ComputeTotalGarbage(sub_groups[i][1]))
         + SumGarbage(sub_groups, i + 1)

ComputeTotalGarbage(g) == g.garbage_count + SumGarbage(g.sub_groups, 1)

NoTotals == [score |-> 0, garbage |-> 0]

Init9 ==
    /\ \E n \in 0..MaxStream : stream \in [1..n -> StreamChars]
    /\ group = NoGroup
    /\ s_totals = NoTotals
    /\ s_pc = "parse"

\* Group::from_str(stream)
Parse ==
    /\ s_pc = "parse"
    /\ group' = FromStr(stream)
    /\ s_pc' = IF FromStr(stream) = NoGroup THEN "failed" ELSE "parsed"
    /\ UNCHANGED <<stream, s_totals>>
    /\ UNCHANGED Others9

\* compute_total_score and compute_total_garbage of the parsed group
Totals ==
    /\ s_pc = "parsed"
    /\ s_totals' = [score |-> ComputeTotalScore(group[1]),
                    garbage |-> ComputeTotalGarbage(group[1])]
    /\ s_pc' = "done"
    /\ UNCHANGED <<stream, group>>
    /\ UNCHANGED Others9

NextStream == Parse \/ Totals

(***************************************************************************)
(* day11: hex grid                                                         *)
(***************************************************************************)
Others11 == <<varsBuild, vars18, vars10, vars13, vars9, vars20, varsMore>>

\* bound of the day11 model: every path of 1..MaxPath tokens
MaxPath == 4

Directions == {"n", "nw", "ne", "s", "sw", "se"}

\* the tokens of the model's paths; "x" is any token that is no direction
PathTokens == Directions \cup {"x"}

\* parse_directions: Option<Vec<Direction>>, None is <<>>, Some(v) is <<v>>
ParseDirections(p) ==
    IF \E i \in 1..Len(p) : p[i] \notin Directions THEN <<>> ELSE <<p>>

\* step
Step(x, y, dir) ==
    CASE dir = "n" -> <<x, y + 2>>
      [] dir = "nw" -> <<x - 1, y + 1>>
      [] dir = "ne" -> <<x + 1, y + 1>>
      [] dir = "s" -> <<x, y - 2>>
      [] dir = "sw" -> <<x - 1, y - 1>>
      [] dir = "se" -> <<x + 1, y - 1>>

\* the loop of calculate_final_position: <<<<x, y>>, <<max_x, max_y>>>>
RECURSIVE FinalPositionLoop(_, _, _, _, _, _)
FinalPositionLoop(directions, i, x, y, max_x, max_y) ==
    IF i > Len(directions) THEN <<<<x, y>>, <<max_x, max_y>>>>
    ELSE LET n == Step(x, y, directions[i])
         IN IF Abs(n[1]) + Abs(n[2]) > max_x + max_y
            THEN FinalPositionLoop(directions, i + 1, n[1], n[2],
                                   Abs(n[1]), Abs(n[2]))
            ELSE FinalPositionLoop(directions, i + 1, n[1], n[2], max_x, max_y)

\* calculate_final_position
CalculateFinalPosition(p) ==
    IF ParseDirections(p) = <<>> THEN <<<<0, 0>>, <<0, 0>>>>
    ELSE FinalPositionLoop(ParseDirections(p)[1], 1, 0, 0, 0, 0)

\* the loop of calculate_steps
RECURSIVE StepsLoop(_, _, _)
StepsLoop(x, y, steps) ==
    IF Abs(x) = Abs(y) THEN steps + Abs(x)
    ELSE IF x > 0
         THEN LET n == IF y > 0 THEN Step(x, y, "sw") ELSE Step(x, y, "nw")
              IN StepsLoop(n[1], n[2], steps + 1)
    ELSE IF x < 0
         THEN LET n == IF y > 0 THEN Step(x, y, "se") ELSE Step(x, y, "ne")
              IN StepsLoop(n[1], n[2], steps + 1)
    ELSE steps + (Abs(y) \div 2)

\* a calculate_steps that forgets that a vertical step moves y by two
CalculateStepsNoHalving(start_x, start_y) ==
    IF start_x = 0 THEN Abs(start_y) ELSE StepsLoop(start_x, start_y, 0)

\* calculate_steps
CalculateSteps(start_x, start_y) == StepsLoop(start_x, start_y, 0)

\* compute_distance: <<current_distance, max_distance>>
ComputeDistance(p) ==
    LET f == CalculateFinalPosition(p)
    IN <<CalculateSteps(f[1][1], f[1][2]), CalculateSteps(f[2][1], f[2][2])>>

Init11 ==
    /\ \E n \in 1..MaxPath : path \in [1..n -> PathTokens]
    /\ hx_result = <<0, 0>>
    /\ hx_pc = "start"

\* compute_distance(path)
Distance ==
    /\ hx_pc = "start"
    /\ hx_result' = ComputeDistance(path)
    /\ hx_pc' = "done"
    /\ UNCHANGED path
    /\ UNCHANGED Others11

NextHex == Distance

(***************************************************************************)
(* day20: particles                                                        *)
(***************************************************************************)
Others20 == <<varsBuild, vars18, vars10, vars13, vars9, vars11, varsMore>>

\* bound of the day20 model: every input of 1..MaxLines lines
MaxLines == 3

\* the ticks simulate looks ahead
Ticks == 1000000

\* a line of the input: one the regular expression of Particle::parse does
\* not match, or one it matches, with the nine numbers it captures
NoMatch == [matches |-> FALSE, position |-> <<0, 0, 0>>,
            velocity |-> <<0, 0, 0>>, acceleration |-> <<0, 0, 0>>]

Line(p, v, a) == [matches |-> TRUE, position |-> p, velocity |-> v,
                  acceleration |-> a]

LineKinds ==
    {NoMatch} \cup {Line(<<px, 0, 0>>, <<vx, 0, 0>>, <<ax, 0, 0>>) :
                      px \in {3, 4}, vx \in {0, 2}, ax \in {-1, -2}}

\* Particle::parse: Option<Particle>, None is <<>>, Some(p) is <<p>>
ParticleParse(line, id) ==
    IF line.matches
    THEN <<[id |-> id, position |-> line.position, velocity |-> line.velocity,
            acceleration |-> line.acceleration]>>
    ELSE <<>>

\* Particle::simulate
ParticleSimulate(p, n) ==
    LET position == [i \in 1..3 |-> Abs(p.position[i]) + Abs(p.velocity[i])
                                      + n * Abs(p.acceleration[i])]
    IN position[1] + position[2] + position[3]

\* the fold of simulate over the enumerated values; `first` stands for the
\* accumulator (0, u64::MAX), which every value is below
RECURSIVE MinFold(_, _, _, _, _)
MinFold(values, i, min_i, min_val, first) ==
    IF i > Len(values) THEN min_i
    ELSE IF first \/ values[i] < min_val
         THEN MinFold(values, i + 1, i - 1, values[i], FALSE)
         ELSE MinFold(values, i + 1, min_i, min_val, FALSE)

\* simulate
Simulate(input) ==
    LET parsed == [i \in 1..Len(input) |-> ParticleParse(input[i], i - 1)]
    IN IF \E i \in 1..Len(input) : parsed[i] = <<>>
       THEN 0
       ELSE MinFold([i \in 1..Len(input) |-> ParticleSimulate(parsed[i][1], Ticks)],
                    1, 0, 0, TRUE)

Init20 ==
    /\ \E n \in 1..MaxLines : p_input \in [1..n -> LineKinds]
    /\ p_result = 0
    /\ p_pc = "start"

\* simulate(p_input)
RunSimulate ==
    /\ p_pc = "start"
    /\ p_result' = Simulate(p_input)
    /\ p_pc' = "done"
    /\ UNCHANGED p_input
    /\ UNCHANGED Others20

NextParticles == RunSimulate

(***************************************************************************)
(* day10: Knot::tie on its own                                             *)
(***************************************************************************)
OthersTie == <<varsBuild, varsFirst, vars17, vars16, varsStep, vars6, vars5, varsEnv>>

\* bound of the tie model: the calls of tie made on one knot
MaxTies == 3

\* the argument of Knot::new in test_round: a buffer of five elements
TieArg == 4

InitTieKnot ==
    /\ t_knot = KnotNew(TieArg)
    /\ t_length = 0
    /\ t_ties = 0
    /\ t_pc = "ready"

\* self.tie(length), which returns
TieReturns(length) ==
    /\ t_pc = "ready"
    /\ t_ties < MaxTies
    /\ ~Tie(t_knot, length, overflow_checks).panic
    /\ t_knot' = Tie(t_knot, length, overflow_checks).knot
    /\ t_length' = length
    /\ t_ties' = t_ties + 1
    /\ UNCHANGED t_pc
    /\ UNCHANGED OthersTie

\* self.tie(length), which panics
TiePanics(length) ==
    /\ t_pc = "ready"
    /\ t_ties < MaxTies
    /\ Tie(t_knot, length, overflow_checks).panic
    /\ t_pc' = "panic"
    /\ t_length' = length
    /\ t_ties' = t_ties + 1
    /\ UNCHANGED t_knot
    /\ UNCHANGED OthersTie

TieCall == \E length \in 0..DataLen(t_knot) : TieReturns(length)

TiePanic == \E length \in 0..DataLen(t_knot) : TiePanics(length)

NextTie == TieCall \/ TiePanic

(***************************************************************************)
(* day17: SpinLock and PseudoSpinLock                                      *)
(***************************************************************************)
Others17 == <<varsBuild, varsFirst, varsTie, vars16, varsStep, vars6, vars5, varsEnv>>

\* bounds of the day17 model: step sizes 0..MaxStepSize and
\* 0..MaxInsertions insertions
MaxStepSize == 4

MaxInsertions == 6

\* Vec::insert(index, element), index counted from 0
VecInsert(v, index, element) ==
    SubSeq(v, 1, index) \o <<element>> \o SubSeq(v, index + 1, Len(v))

\* the insert point both loops compute for their i-th pass
InsertPoint(position, step_size, i) == ((position + step_size) % i) + 1

\* SpinLock::new
SpinLockNew ==
    [position |-> 0, state |-> <<0>>, i |-> 1, insert_point |-> 0,
     result |-> 0, pc |-> "loop"]

\* one pass of the loop of SpinLock::short_circuit
SpinPass(l, step_size) ==
    LET insert_point == InsertPoint(l.position, step_size, l.i)
    IN [l EXCEPT !.insert_point = insert_point,
                 !.state = VecInsert(l.state, insert_point, l.i),
                 !.position = insert_point,
                 !.i = l.i + 1]

\* what SpinLock::short_circuit returns after its loop
SpinResult(l) == l.state[((l.insert_point + 1) % Len(l.state)) + 1]

\* PseudoSpinLock::new
PseudoSpinLockNew ==
    [position |-> 0, value_at_first_index |-> 0, i |-> 1, result |-> 0,
     pc |-> "loop"]

\* a loop that takes index 0 for the slot after element 0
PseudoPassAtZero(l, step_size) ==
    LET insert_point == InsertPoint(l.position, step_size, l.i)
    IN [l EXCEPT !.position = insert_point,
                 !.value_at_first_index =
                     IF insert_point = 0 THEN l.i ELSE l.value_at_first_index,
                 !.i = l.i + 1]

\* one pass of the loop of PseudoSpinLock::short_circuit
PseudoPass(l, step_size) ==
    LET insert_point == InsertPoint(l.position, step_size, l.i)
    IN [l EXCEPT !.position = insert_point,
                 !.value_at_first_index =
                     IF insert_point = 1 THEN l.i ELSE l.value_at_first_index,
                 !.i = l.i + 1]

InitLocks ==
    /\ sl_step_size \in 0..MaxStepSize
    /\ sl_steps \in 0..MaxInsertions
    /\ spin = SpinLockNew
    /\ pseudo = PseudoSpinLockNew

SpinInsert ==
    /\ spin.pc = "loop"
    /\ spin.i < sl_steps + 1
    /\ spin' = SpinPass(spin, sl_step_size)
    /\ UNCHANGED <<sl_step_size, sl_steps, pseudo>>
    /\ UNCHANGED Others17

SpinReturn ==
    /\ spin.pc = "loop"
    /\ ~(spin.i < sl_steps + 1)
    /\ spin' = [spin EXCEPT !.result = SpinResult(spin), !.pc = "done"]
    /\ UNCHANGED <<sl_step_size, sl_steps, pseudo>>
    /\ UNCHANGED Others17

PseudoInsert ==
    /\ pseudo.pc = "loop"
    /\ pseudo.i < sl_steps + 1
    /\ pseudo' = PseudoPass(pseudo, sl_step_size)
    /\ UNCHANGED <<sl_step_size, sl_steps, spin>>
    /\ UNCHANGED Others17

PseudoReturn ==
    /\ pseudo.pc = "loop"
    /\ ~(pseudo.i < sl_steps + 1)
    /\ pseudo' = [pseudo EXCEPT !.result = pseudo.value_at_first_index,
                                !.pc = "done"]
    /\ UNCHANGED <<sl_step_size, sl_steps, spin>>
    /\ UNCHANGED Others17

NextLocks == SpinInsert \/ SpinReturn \/ PseudoInsert \/ PseudoReturn

(***************************************************************************)
(* day16: Step, Dance                                                      *)
(***************************************************************************)
Others16 == <<varsBuild, varsFirst, varsTie, vars17, varsStep, vars6, vars5, varsEnv>>

\* bounds of the day16 model: dances of 1..MaxDancers programs, step lists
\* of 1..MaxDanceLen steps, spins of 0..MaxSpin, 0..MaxRepetitions repetitions
MaxDancers == 3

MaxDanceLen == 3

MaxSpin == 5

MaxRepetitions == 3

\* the width of u8
U8Bits == 8

U8Modulus == 2 ^ U8Bits

\* ('a' as u8 + i) as char
ProgramNames == <<"a", "b", "c", "d", "e", "f", "g", "h", "i", "j", "k", "l",
                  "m", "n", "o", "p">>

\* Step
Spin(i) == [type |-> "Spin", a |-> i, b |-> 0, pa |-> "", pb |-> ""]

Exchange(a, b) == [type |-> "Exchange", a |-> a, b |-> b, pa |-> "", pb |-> ""]

Partner(a, b) == [type |-> "Partner", a |-> 0, b |-> 0, pa |-> a, pb |-> b]

\* Dance::new_sized; programs[k + 1] is the element of the Vec at index k
NewSized(size) == [offset |-> 0, programs |-> [k \in 1..size |-> ProgramNames[k]]]

\* the outcome of a u8 computation: a value, or a panic
U8Ok(v) == [panic |-> FALSE, v |-> v]

U8Panic == [panic |-> TRUE, v |-> 0]

\* a u8 sum or difference whose mathematical value is x: out of 0..255 it
\* panics in a build with overflow checks and wraps in one without
U8(x, checks) ==
    IF x >= 0 /\ x < U8Modulus THEN U8Ok(x)
    ELSE IF checks THEN U8Panic
    ELSE U8Ok((x + U8Modulus) % U8Modulus)

\* a get_real_index that forgets the offset
GetRealIndexNoOffset(d, index, checks) == U8Ok(index % Len(d.programs))

\* Dance::get_real_index
GetRealIndex(d, index, checks) ==
    LET sum == U8(index + d.offset, checks)
    IN IF sum.panic THEN U8Panic ELSE U8Ok(sum.v % Len(d.programs))

\* Dance::get_index
GetIndex(d, c) ==
    LET found == {k \in 0..(Len(d.programs) - 1) : d.programs[k + 1] = c}
    IN IF found = {} THEN 0 ELSE CHOOSE k \in found : \A m \in found : m <= k

\* Vec::swap
VecSwap(v, index_a, index_b) ==
    [v EXCEPT ![index_a + 1] = v[index_b + 1], ![index_b + 1] = v[index_a + 1]]

DanceOk(d) == [panic |-> FALSE, dance |-> d]

DancePanic(d) == [panic |-> TRUE, dance |-> d]

\* Dance::step
DanceStep(d, step, checks) ==
    CASE step.type = "Spin" ->
           LET len == Len(d.programs)
               sum == U8(d.offset + len, checks)
               diff == IF sum.panic THEN U8Panic ELSE U8(sum.v - step.a, checks)
           IN IF diff.panic THEN DancePanic(d)
              ELSE DanceOk([d EXCEPT !.offset = diff.v % len])
      [] step.type = "Exchange" ->
           LET index_a == GetRealIndex(d, step.a, checks)
               index_b == GetRealIndex(d, step.b, checks)
           IN IF index_a.panic \/ index_b.panic THEN DancePanic(d)
              ELSE DanceOk([d EXCEPT !.programs =
                                VecSwap(d.programs, index_a.v, index_b.v)])
      [] step.type = "Partner" ->
           DanceOk([d EXCEPT !.programs =
                       VecSwap(d.programs, GetIndex(d, step.pa),
                               GetIndex(d, step.pb))])

\* the fold of the steps over the dance, from step k on
RECURSIVE ApplySteps(_, _, _, _)
ApplySteps(d, steps, k, checks) ==
    IF k > Len(steps) THEN DanceOk(d)
    ELSE LET r == DanceStep(d, steps[k], checks)
         IN IF r.panic THEN r ELSE ApplySteps(r.dance, steps, k + 1, checks)

\* Display for Dance; no index + offset of the model's dances leaves u8
Display(d) ==
    [k \in 1..Len(d.programs) |->
        d.programs[GetRealIndex(d, k - 1, FALSE).v + 1]]

\* the steps of the model for a dance of `size` programs
StepAlphabet(size) ==
    {Spin(i) : i \in 0..MaxSpin}
    \cup {Exchange(a, b) : a \in 0..(size - 1), b \in 0..(size - 1)}
    \cup {Partner(ProgramNames[a], ProgramNames[b]) : a \in 1..size, b \in 1..size}

InitDance ==
    /\ d_size \in 1..MaxDancers
    /\ \E n \in 1..MaxDanceLen : d_steps \in [1..n -> StepAlphabet(d_size)]
    /\ d_repetitions \in 0..MaxRepetitions
    /\ dance = NewSized(d_size)
    /\ d_i = 0
    /\ starting_states = <<>>
    /\ d_remaining = 0
    /\ d_j = 0
    /\ d_pc = "loop"

\* a pass of the first loop from a starting state not seen before
LoopPass ==
    /\ d_pc = "loop"
    /\ d_i < d_repetitions
    /\ Display(dance) \notin DOMAIN starting_states
    /\ ~ApplySteps(dance, d_steps, 1, overflow_checks).panic
    /\ starting_states' = (Display(dance) :> d_i) @@ starting_states
    /\ dance' = ApplySteps(dance, d_steps, 1, overflow_checks).dance
    /\ d_i' = d_i + 1
    /\ UNCHANGED <<d_size, d_steps, d_repetitions, d_remaining, d_j, d_pc>>
    /\ UNCHANGED Others16

\* a starting state seen before: the rest of the repetitions modulo the
\* cycle length remain
CycleFound ==
    /\ d_pc = "loop"
    /\ d_i < d_repetitions
    /\ Display(dance) \in DOMAIN starting_states
    /\ d_remaining' =
           (d_repetitions - d_i) % (d_i - starting_states[Display(dance)])
    /\ d_pc' = "remaining"
    /\ UNCHANGED <<d_size, d_steps, d_repetitions, dance, d_i,
                   starting_states, d_j>>
    /\ UNCHANGED Others16

\* the first loop ends without a cycle
LoopEnd ==
    /\ d_pc = "loop"
    /\ ~(d_i < d_repetitions)
    /\ d_pc' = "remaining"
    /\ UNCHANGED <<d_size, d_steps, d_repetitions, dance, d_i,
                   starting_states, d_remaining, d_j>>
    /\ UNCHANGED Others16

\* a pass of the second loop
RemainingPass ==
    /\ d_pc = "remaining"
    /\ d_j < d_remaining
    /\ ~ApplySteps(dance, d_steps, 1, overflow_checks).panic
    /\ dance' = ApplySteps(dance, d_steps, 1, overflow_checks).dance
    /\ d_j' = d_j + 1
    /\ UNCHANGED <<d_size, d_steps, d_repetitions, d_i, starting_states,
                   d_remaining, d_pc>>
    /\ UNCHANGED Others16

\* a step of a pass, of either loop, panics: the steps before it have acted
\* on the dance, and in the first loop the starting state has been inserted
PassPanics ==
    /\ \/ d_pc = "loop" /\ d_i < d_repetitions
          /\ Display(dance) \notin DOMAIN starting_states
       \/ d_pc = "remaining" /\ d_j < d_remaining
    /\ ApplySteps(dance, d_steps, 1, overflow_checks).panic
    /\ starting_states' =
           IF d_pc = "loop" THEN (Display(dance) :> d_i) @@ starting_states
           ELSE starting_states
    /\ dance' = ApplySteps(dance, d_steps, 1, overflow_checks).dance
    /\ d_pc' = "panic"
    /\ UNCHANGED <<d_size, d_steps, d_repetitions, d_i, d_remaining, d_j>>
    /\ UNCHANGED Others16

DanceReturn ==
    /\ d_pc = "remaining"
    /\ ~(d_j < d_remaining)
    /\ d_pc' = "done"
    /\ UNCHANGED <<d_size, d_steps, d_repetitions, dance, d_i,
                   starting_states, d_remaining, d_j>>
    /\ UNCHANGED Others16

NextDance ==
    LoopPass \/ CycleFound \/ LoopEnd \/ RemainingPass \/ PassPanics
    \/ DanceReturn

(***************************************************************************)
(* day16: Dance::step on its own                                           *)
(***************************************************************************)
OthersStep == <<varsBuild, varsFirst, varsTie, vars17, vars16, vars6, vars5, varsEnv>>

InitSteps ==
    /\ \E size \in 1..MaxDancers : st_dance = NewSized(size)
    /\ st_step = Spin(0)
    /\ st_pc = "ready"

\* self.step(step), which returns
StepReturns(step) ==
    /\ st_pc = "ready"
    /\ ~DanceStep(st_dance, step, overflow_checks).panic
    /\ st_dance' = DanceStep(st_dance, step, overflow_checks).dance
    /\ st_step' = step
    /\ UNCHANGED st_pc
    /\ UNCHANGED OthersStep

\* self.step(step), which panics
StepPanics(step) ==
    /\ st_pc = "ready"
    /\ DanceStep(st_dance, step, overflow_checks).panic
    /\ st_pc' = "panic"
    /\ st_step' = step
    /\ UNCHANGED st_dance
    /\ UNCHANGED OthersStep

DoSpin == \E i \in 0..MaxSpin : StepReturns(Spin(i))

DoExchange ==
    \E a, b \in 0..(Len(st_dance.programs) - 1) : StepReturns(Exchange(a, b))

DoPartner ==
    \E a, b \in 1..Len(st_dance.programs) :
        StepReturns(Partner(ProgramNames[a], ProgramNames[b]))

SpinPanics == \E i \in 0..MaxSpin : StepPanics(Spin(i))

NextSteps == DoSpin \/ DoExchange \/ DoPartner \/ SpinPanics

(***************************************************************************)
(* day6: memory banks                                                      *)
(***************************************************************************)
Others6 == <<varsBuild, varsFirst, varsTie, vars17, vars16, varsStep, vars5, varsEnv>>

\* bounds of the day6 model: 1..MaxBanks banks of 0..MaxBlocks blocks
MaxBanks == 3

MaxBlocks == 4

\* u32::to_string: the decimal digits, as a sequence of characters
RECURSIVE NumberToString(_)
NumberToString(num) ==
    LET digit == <<"0", "1", "2", "3", "4", "5", "6", "7", "8", "9">>[(num % 10) + 1]
    IN IF num < 10 THEN <<digit>> ELSE Append(NumberToString(num \div 10), digit)

\* util::number_slice_to_string: the numbers joined by ","
RECURSIVE NumberSliceToString(_)
NumberSliceToString(input) ==
    IF Len(input) = 0 THEN <<>>
    ELSE IF Len(input) = 1 THEN NumberToString(input[1])
    ELSE NumberToString(input[1]) \o <<",">> \o NumberSliceToString(Tail(input))

\* the loop of find_max from element k on: <<i_max, max>>, indices from 0
RECURSIVE FindMaxFrom(_, _, _, _)
FindMaxFrom(mem, k, i_max, max) ==
    IF k > Len(mem) THEN <<i_max, max>>
    ELSE IF mem[k] > max THEN FindMaxFrom(mem, k + 1, k - 1, mem[k])
    ELSE FindMaxFrom(mem, k + 1, i_max, max)

\* a find_max that takes the last of the largest banks
FindMaxLast(mem) ==
    LET max == FindMaxFrom(mem, 1, 0, 0)[2]
        last == CHOOSE k \in 1..Len(mem) :
                    mem[k] = max /\ \A m \in 1..Len(mem) : mem[m] = max => m <= k
    IN <<last - 1, max>>

\* find_max
FindMax(mem) == FindMaxFrom(mem, 1, 0, 0)

\* redistribute
Redistribute(mem) ==
    LET length == Len(mem)
        i_max == FindMax(mem)[1]
        max == FindMax(mem)[2]
        remainder == max % length
    IN [k \in 1..length |->
          LET j == k - 1
              j_rotated == (((length - 1) - i_max) + j) % length
          IN (IF j = i_max THEN 0 ELSE mem[k])
             + (max \div length)
             + ((2 * remainder) \div (remainder + j_rotated + 1))]

InitBanks ==
    /\ \E n \in 1..MaxBanks : m_input \in [1..n -> 0..MaxBlocks]
    /\ memory = m_input
    /\ cycles = 0
    /\ previous_states = {}
    /\ m_pc = "loop"

\* one pass of the loop of detect_redistribution_loop
RedistributionCycle ==
    /\ m_pc = "loop"
    /\ NumberSliceToString(memory) \notin previous_states
    /\ cycles' = cycles + 1
    /\ previous_states' = previous_states \cup {NumberSliceToString(memory)}
    /\ memory' = Redistribute(memory)
    /\ UNCHANGED <<m_input, m_pc>>
    /\ UNCHANGED Others6

\* the state was seen before: the function returns `cycles`
LoopDetected ==
    /\ m_pc = "loop"
    /\ NumberSliceToString(memory) \in previous_states
    /\ m_pc' = "done"
    /\ UNCHANGED <<m_input, memory, cycles, previous_states>>
    /\ UNCHANGED Others6

NextBanks == RedistributionCycle \/ LoopDetected

(***************************************************************************)
(* day5: mazes of jump offsets                                             *)
(***************************************************************************)
Others5 == <<varsBuild, varsFirst, varsTie, vars17, vars16, varsStep, vars6, varsEnv>>

\* bounds of the day5 model: mazes of 0..MaxMaze offsets, each in
\* -MaxBack..MaxForward
MaxMaze == 3

MaxBack == 2

MaxForward == 4

\* the closure of the complex maze with its test one lower
IncrementFromTwo(complex, maze_value) ==
    IF complex THEN (IF maze_value > 1 THEN -1 ELSE 1) ELSE 1

\* the closures compute_steps_to_exit_simple_maze and
\* compute_steps_to_exit_complex_maze pass as `increment`
Increment(complex, maze_value) ==
    IF complex THEN (IF maze_value > 2 THEN -1 ELSE 1) ELSE 1

InitMaze ==
    /\ \E n \in 0..MaxMaze : mz_input \in [1..n -> (-MaxBack)..MaxForward]
    /\ mz_complex \in BOOLEAN
    /\ maze = mz_input
    /\ mz_i = 0
    /\ mz_steps = 0
    /\ mz_pc = "loop"

\* one pass of the loop of compute_steps_to_exit_maze
Jump ==
    /\ mz_pc = "loop"
    /\ mz_i >= 0 /\ mz_i < Len(maze)
    /\ mz_steps' = mz_steps + 1
    /\ mz_i' = mz_i + maze[mz_i + 1]
    /\ maze' = [maze EXCEPT ![mz_i + 1] = @ + Increment(mz_complex, @)]
    /\ UNCHANGED <<mz_input, mz_complex, mz_pc>>
    /\ UNCHANGED Others5

\* the index is out of the maze: the function returns `steps`
ExitMaze ==
    /\ mz_pc = "loop"
    /\ ~(mz_i >= 0 /\ mz_i < Len(maze))
    /\ mz_pc' = "done"
    /\ UNCHANGED <<mz_input, mz_complex, maze, mz_i, mz_steps>>
    /\ UNCHANGED Others5

NextMaze == Jump \/ ExitMaze

(***************************************************************************)
(* processor::Environment: link, send, receive                             *)
(***************************************************************************)
OthersEnv == <<varsBuild, varsFirst, varsTie, vars17, vars16, varsStep, vars6, vars5>>

\* bound of the queue model: the calls of link, send and receive made
MaxCalls == 4

\* the environments of the model, each in its Rc<RefCell<..>>, and the
\* values they send
QueueEnvs == {0, 1, 2}

QueueValues == {7, 8}

\* Option<Rc<RefCell<Environment>>>
NoLink == <<>>

LinkTo(e) == <<e>>

\* Environment::new for every environment
QueueNewEnvs == [e \in QueueEnvs |-> [linked_env |-> NoLink, rcv |-> <<>>]]

\* Environment::link on environment e
EnvLink(es, e, other) == [es EXCEPT ![e] = [@ EXCEPT !.linked_env = LinkTo(other)]]

\* RefCell::borrow_mut of the link in send, called through the mutable
\* borrow of environment e: it panics when the link is e itself
BorrowPanics(es, e) == es[e].linked_env = LinkTo(e)

\* Environment::send on environment e
EnvSendLinked(es, e, value) ==
    IF es[e].linked_env = NoLink THEN es
    ELSE [es EXCEPT ![es[e].linked_env[1]] = [@ EXCEPT !.rcv = Append(@, value)]]

\* a call of link, send or receive on environment e: what it returned and
\* whether it panicked
LinkCall(e, other) ==
    [op |-> "link", env |-> e, other |-> other, value |-> 0, result |-> None,
     panic |-> FALSE]

SendCall(e, value, panic) ==
    [op |-> "send", env |-> e, other |-> 0, value |-> value, result |-> None,
     panic |-> panic]

ReceiveCall(e, result) ==
    [op |-> "receive", env |-> e, other |-> 0, value |-> 0, result |-> result,
     panic |-> FALSE]

\* no call has panicked, and the bound allows another call
CanCall ==
    /\ Len(q_calls) < MaxCalls
    /\ \A k \in 1..Len(q_calls) : ~q_calls[k].panic

InitQueues ==
    /\ q_envs = QueueNewEnvs
    /\ q_calls = <<>>

QueueLink(e, other) ==
    /\ CanCall
    /\ q_envs' = EnvLink(q_envs, e, other)
    /\ q_calls' = Append(q_calls, LinkCall(e, other))
    /\ UNCHANGED OthersEnv

QueueSend(e, value) ==
    /\ CanCall
    /\ ~BorrowPanics(q_envs, e)
    /\ q_envs' = EnvSendLinked(q_envs, e, value)
    /\ q_calls' = Append(q_calls, SendCall(e, value, FALSE))
    /\ UNCHANGED OthersEnv

\* send on an environment linked to itself
QueueSendPanics(e, value) ==
    /\ CanCall
    /\ BorrowPanics(q_envs, e)
    /\ q_envs' = q_envs
    /\ q_calls' = Append(q_calls, SendCall(e, value, TRUE))
    /\ UNCHANGED OthersEnv

QueueReceive(e) ==
    /\ CanCall
    /\ q_envs' = [q_envs EXCEPT ![e] = EnvReceive(q_envs[e]).env]
    /\ q_calls' = Append(q_calls, ReceiveCall(e, EnvReceive(q_envs[e]).result))
    /\ UNCHANGED OthersEnv

LinkAny == \E e \in DOMAIN q_envs : \E other \in DOMAIN q_envs : QueueLink(e, other)

SendAny == \E e \in DOMAIN q_envs : \E value \in QueueValues : QueueSend(e, value)

SendPanicsAny ==
    \E e \in DOMAIN q_envs : \E value \in QueueValues : QueueSendPanics(e, value)

ReceiveAny == \E e \in DOMAIN q_envs : QueueReceive(e)

NextQueues == LinkAny \/ SendAny \/ SendPanicsAny \/ ReceiveAny

(***************************************************************************)
(* Specifications                                                          *)
(***************************************************************************)
Idle18 ==
    /\ instructions = <<>>
    /\ envs = NewEnvs
    /\ instruction_count = [p \in Programs |-> [t \in InstructionTypes |-> 0]]
    /\ made_progress = FALSE
    /\ halted = [p \in Programs |-> FALSE]
    /\ loc = "idle"

Idle10 ==
    /\ lengths = <<>>
    /\ knot = [data |-> <<>>, pos |-> 0, skip |-> 0]
    /\ k_round = 0
    /\ k_pc = "idle"
    /\ dense_hash = <<>>

Idle13 ==
    /\ fw_layers = <<>>
    /\ fw_delay = 0
    /\ fw_severity = Ok(0)
    /\ fw_scan = 0
    /\ fw_min = Ok(0)
    /\ fw_pc = "idle"

Idle9 ==
    /\ stream = <<>>
    /\ group = NoGroup
    /\ s_totals = NoTotals
    /\ s_pc = "idle"

Idle11 ==
    /\ path = <<>>
    /\ hx_result = <<0, 0>>
    /\ hx_pc = "idle"

Idle20 ==
    /\ p_input = <<>>
    /\ p_result = 0
    /\ p_pc = "idle"

IdleTie ==
    /\ t_knot = [data |-> <<>>, pos |-> 0, skip |-> 0]
    /\ t_length = 0
    /\ t_ties = 0
    /\ t_pc = "idle"

Idle17 ==
    /\ sl_step_size = 0
    /\ sl_steps = 0
    /\ spin = [position |-> 0, state |-> <<>>, i |-> 0, insert_point |-> 0,
               result |-> 0, pc |-> "idle"]
    /\ pseudo = [position |-> 0, value_at_first_index |-> 0, i |-> 0,
                 result |-> 0, pc |-> "idle"]

Idle16 ==
    /\ d_size = 0
    /\ d_steps = <<>>
    /\ d_repetitions = 0
    /\ dance = [offset |-> 0, programs |-> <<>>]
    /\ d_i = 0
    /\ starting_states = <<>>
    /\ d_remaining = 0
    /\ d_j = 0
    /\ d_pc = "idle"

IdleStep ==
    /\ st_dance = [offset |-> 0, programs |-> <<>>]
    /\ st_step = Spin(0)
    /\ st_pc = "idle"

Idle6 ==
    /\ m_input = <<>>
    /\ memory = <<>>
    /\ cycles = 0
    /\ previous_states = {}
    /\ m_pc = "idle"

Idle5 ==
    /\ mz_input = <<>>
    /\ mz_complex = FALSE
    /\ maze = <<>>
    /\ mz_i = 0
    /\ mz_steps = 0
    /\ mz_pc = "idle"

IdleEnv ==
    /\ q_envs = <<>>
    /\ q_calls = <<>>

IdleMore == IdleTie /\ Idle17 /\ Idle16 /\ IdleStep /\ Idle6 /\ Idle5 /\ IdleEnv

\* the six parts above
IdleFirst == Idle18 /\ Idle10 /\ Idle13 /\ Idle9 /\ Idle11 /\ Idle20

\* no arithmetic of this part can overflow
AnyBuild == overflow_checks \in BOOLEAN

OneBuild == overflow_checks = FALSE

Init == OneBuild /\ Init18 /\ Idle10 /\ Idle13 /\ Idle9 /\ Idle11 /\ Idle20 /\ IdleMore

Next == Next18

Spec == Init /\ [][Next]_vars

\* execute is a plain loop on one thread: it keeps taking steps
FairSpec == Init /\ [][Next]_vars /\ WF_vars(Next)

InitKnot == AnyBuild /\ Idle18 /\ Init10 /\ Idle13 /\ Idle9 /\ Idle11 /\ Idle20 /\ IdleMore

SpecKnot == InitKnot /\ [][NextKnot]_vars

InitFirewall == AnyBuild /\ Idle18 /\ Idle10 /\ Init13 /\ Idle9 /\ Idle11 /\ Idle20 /\ IdleMore

SpecFirewall == InitFirewall /\ [][NextFirewall]_vars

InitStream == OneBuild /\ Idle18 /\ Idle10 /\ Idle13 /\ Init9 /\ Idle11 /\ Idle20 /\ IdleMore

SpecStream == InitStream /\ [][NextStream]_vars

InitHex == OneBuild /\ Idle18 /\ Idle10 /\ Idle13 /\ Idle9 /\ Init11 /\ Idle20 /\ IdleMore

SpecHex == InitHex /\ [][NextHex]_vars

InitParticles == OneBuild /\ Idle18 /\ Idle10 /\ Idle13 /\ Idle9 /\ Idle11 /\ Init20 /\ IdleMore

SpecParticles == InitParticles /\ [][NextParticles]_vars

InitTie == AnyBuild /\ IdleFirst /\ Idle17 /\ Idle16 /\ IdleStep /\ Idle6 /\ Idle5 /\ IdleEnv /\ InitTieKnot

SpecTie == InitTie /\ [][NextTie]_vars

Init17 == OneBuild /\ IdleFirst /\ IdleTie /\ Idle16 /\ IdleStep /\ Idle6 /\ Idle5 /\ IdleEnv /\ InitLocks

SpecLocks == Init17 /\ [][NextLocks]_vars

Init16 == AnyBuild /\ IdleFirst /\ IdleTie /\ Idle17 /\ IdleStep /\ Idle6 /\ Idle5 /\ IdleEnv /\ InitDance

SpecDance == Init16 /\ [][NextDance]_vars

InitStep == AnyBuild /\ IdleFirst /\ IdleTie /\ Idle17 /\ Idle16 /\ Idle6 /\ Idle5 /\ IdleEnv /\ InitSteps

SpecSteps == InitStep /\ [][NextSteps]_vars

Init6 == OneBuild /\ IdleFirst /\ IdleTie /\ Idle17 /\ Idle16 /\ IdleStep /\ Idle5 /\ IdleEnv /\ InitBanks

\* the loop runs on one thread and keeps taking its steps
FairSpecBanks == Init6 /\ [][NextBanks]_vars /\ WF_vars(NextBanks)

Init5 == OneBuild /\ IdleFirst /\ IdleTie /\ Idle17 /\ Idle16 /\ IdleStep /\ Idle6 /\ IdleEnv /\ InitMaze

SpecMaze == Init5 /\ [][NextMaze]_vars

InitEnv == OneBuild /\ IdleFirst /\ IdleTie /\ Idle17 /\ Idle16 /\ IdleStep /\ Idle6 /\ Idle5 /\ InitQueues

SpecQueues == InitEnv /\ [][NextQueues]_vars

(***************************************************************************)
(* Claims about day18                                                      *)
(***************************************************************************)
AllStuck == \A p \in Programs : ~CanRun(p)

\* C1 as stated: the two programs alternate single instructions; a program
\* never executes two instructions in a row while the other is able to run.
\* (A step that stays in the loop of p has executed an instruction of p, and
\* with p still able to run the next step executes another one.)
C1_AlternatesSingleSteps ==
    [][\A p \in Programs :
         ~(/\ loc = LocOf(p) /\ loc' = LocOf(p)
           /\ CanRun(p)' /\ CanRun(1 - p)')]_vars

\* C1 amended: execute interleaves runs, not single steps: the running
\* program keeps executing and control passes on to the other program only
\* when the running one has halted or is blocked on an empty queue.
C1_RunsUntilHaltOrBlock ==
    [][\A p \in Programs :
         (loc = LocOf(p) /\ loc' # LocOf(p)) => ~CanRun(p)']_vars

\* program zero has executed two instructions back to back and goes on,
\* while program one has not started and is able to run
C1_Witness ==
    /\ loc = "zero"
    /\ Executed(0) >= 2
    /\ Executed(1) = 0
    /\ CanRun(0)
    /\ CanRun(1)

\* C2: execute has returned only if both programs are halted or blocked, and
\* once both are halted or blocked it does return.
C2_ReturnsExactlyWhenStuck ==
    /\ [](loc = "done" => AllStuck)
    /\ (AllStuck ~> (loc = "done"))

\* execute has returned from a deadlock that followed a message exchange
C2_Witness ==
    /\ loc = "done"
    /\ Blocked(0)
    /\ Blocked(1)
    /\ instruction_count[0]["Rcv"] > 0
    /\ instruction_count[1]["Rcv"] > 0

(***************************************************************************)
(* Claims about day10                                                      *)
(***************************************************************************)
\* The hash as C4 describes it: reverse the circular segment, move on by
\* length + skip, count the skip up; 64 times the lengths and the suffix,
\* position and skip carried over; XOR the sixteen blocks.
RefReverse(data, pos, length) ==
    LET n == Cardinality(DOMAIN data)
    IN [x \in DOMAIN data |->
          LET i == (x - pos + n) % n
          IN IF i < length THEN data[(pos + length - 1 - i) % n] ELSE data[x]]

\* one round on a knot: tie every length of the list, the position and the
\* skip size going on from where the knot stands
RECURSIVE RefRound(_, _, _)
RefRound(k, list, i) ==
    IF i > Len(list) THEN k
    ELSE RefRound([data |-> RefReverse(k.data, k.pos, list[i]),
                   pos |-> (k.pos + list[i] + k.skip) % Cardinality(DOMAIN k.data),
                   skip |-> k.skip + 1],
                  list, i + 1)

RECURSIVE XorAll(_)
XorAll(S) ==
    IF S = {} THEN 0
    ELSE LET x == CHOOSE y \in S : TRUE
         IN Xor(x, XorAll(S \ {x}))

RefDense(data) ==
    [i \in 1..16 |-> XorAll({data[x] : x \in (16 * (i - 1))..(16 * (i - 1) + 15)})]

\* C4: compute_hash(lengths) on a fresh 256-element knot returns (it does
\* not panic); each of its 64 rounds applies the lengths and then the suffix
\* 17,31,73,47,23 to the knot as the round before left it; byte i of the
\* result is the XOR of block i of the final buffer.
C4_ComputeHash ==
    /\ [](k_pc # "panic")
    /\ [][/\ k_pc = "lengths" => knot' = RefRound(knot, lengths, 1)
          /\ k_pc = "secret" => knot' = RefRound(knot, <<17, 31, 73, 47, 23>>, 1)]_vars
    /\ [](k_pc = "done" =>
            /\ k_round = 64
            /\ knot.skip = 64 * (Len(lengths) + 5)
            /\ dense_hash = RefDense(knot.data))

(***************************************************************************)
(* Claims about day13                                                      *)
(***************************************************************************)
\* the scanner of a layer of range r after t picoseconds: it starts at
\* position 0 and moves one position per picosecond between 0 and r - 1
RECURSIVE ScannerAfter(_, _, _, _)
ScannerAfter(r, t, at, dir) ==
    IF t = 0 THEN at
    ELSE IF r = 1 THEN ScannerAfter(r, t - 1, 0, dir)
    ELSE IF at + dir > r - 1 THEN ScannerAfter(r, t - 1, at - 1, -1)
    ELSE IF at + dir < 0 THEN ScannerAfter(r, t - 1, at + 1, 1)
    ELSE ScannerAfter(r, t - 1, at + dir, dir)

ScannerAtTop(layer, delay) ==
    /\ layer.range >= 1
    /\ ScannerAfter(layer.range, layer.position + delay, 0, 1) = 0

RECURSIVE SumSeq(_)
SumSeq(q) == IF q = <<>> THEN 0 ELSE Head(q) + SumSeq(Tail(q))

RefSeverity(layers, delay) ==
    SumSeq([i \in 1..Len(layers) |->
              IF ScannerAtTop(layers[i], delay)
              THEN layers[i].position * layers[i].range ELSE 0])

\* C5: for layers of range >= 1 and every delay, is_caught says caught
\* exactly when the layer's scanner is at position 0 at time position +
\* delay, and compute_severity(delay) is the sum of position * range over
\* the layers that catch.
C5_CaughtIffScannerAtTop ==
    (fw_pc \in {"scan", "done"}
       /\ \A i \in 1..Len(fw_layers) : fw_layers[i].range >= 1) =>
        /\ \A i \in 1..Len(fw_layers) : \A d \in 0..MaxDelay :
              LET c == IsCaught(fw_layers[i], d, overflow_checks)
              IN ~c.panic /\ (c.v <=> ScannerAtTop(fw_layers[i], d))
        /\ ~fw_severity.panic
        /\ fw_severity.v = RefSeverity(fw_layers, fw_delay)

\* C6: compute_min_safe_delay returns a delay at which no layer catches,
\* and at every smaller delay some layer catches.
C6_MinSafeDelay ==
    fw_pc = "done" =>
        /\ ~fw_min.panic
        /\ \A i \in 1..Len(fw_layers) : ~ScannerAtTop(fw_layers[i], fw_min.v)
        /\ \A d \in 0..(fw_min.v - 1) :
              \E i \in 1..Len(fw_layers) : ScannerAtTop(fw_layers[i], d)

(***************************************************************************)
(* Claims about day9                                                       *)
(***************************************************************************)
\* One pass over the stream after its opening brace, keeping the nesting
\* depth: the stream is "closed" when the outermost group closes, "bad"
\* when a character other than { } , < ! stands outside garbage, "open"
\* when the stream ends first.  score sums the depths of the groups opened,
\* garbage counts the characters inside garbage that are neither ! nor
\* cancelled by one.
RECURSIVE Scan(_, _, _, _, _, _)
Scan(s, i, depth, in_garbage, score, garbage) ==
    IF i > Len(s)
    THEN [status |-> "open", at |-> i, score |-> score, garbage |-> garbage]
    ELSE IF s[i] = "!"
         THEN Scan(s, i + 2, depth, in_garbage, score, garbage)
    ELSE IF in_garbage
         THEN IF s[i] = ">"
              THEN Scan(s, i + 1, depth, FALSE, score, garbage)
              ELSE Scan(s, i + 1, depth, TRUE, score, garbage + 1)
    ELSE IF s[i] = "{"
         THEN Scan(s, i + 1, depth + 1, FALSE, score + depth + 1, garbage)
    ELSE IF s[i] = "}"
         THEN IF depth = 1
              THEN [status |-> "closed", at |-> i, score |-> score,
                    garbage |-> garbage]
              ELSE Scan(s, i + 1, depth - 1, FALSE, score, garbage)
    ELSE IF s[i] = "," THEN Scan(s, i + 1, depth, FALSE, score, garbage)
    ELSE IF s[i] = "<" THEN Scan(s, i + 1, depth, TRUE, score, garbage)
    ELSE [status |-> "bad", at |-> i, score |-> score, garbage |-> garbage]

ScanStream(s) ==
    IF Len(s) >= 1 /\ s[1] = "{"
    THEN Scan(s, 2, 1, FALSE, 1, 0)
    ELSE [status |-> "bad", at |-> 1, score |-> 0, garbage |-> 0]

\* a well-formed stream is one group, closed by the last character
WellFormed(s) == ScanStream(s).status = "closed" /\ ScanStream(s).at = Len(s)

\* C7: from_str returns None when the first character is not {, when a
\* group is never closed, and when a character other than { } , < ! stands
\* outside garbage, at any nesting depth.
C7_NoneWhenUnparsable ==
    (s_pc \in {"failed", "parsed", "done"}
       /\ ScanStream(stream).status \in {"bad", "open"}) => group = NoGroup

\* C8: for a well-formed stream the total score is the sum of the nesting
\* depths of its groups and the total garbage is the number of garbage
\* characters, without the enclosing < >, the ! and what they cancel.
C8_Totals ==
    (WellFormed(stream) /\ s_pc # "parse") =>
        /\ group # NoGroup
        /\ s_pc = "done" =>
              /\ s_totals.score = ScanStream(stream).score
              /\ s_totals.garbage = ScanStream(stream).garbage

\* the totals of a well-formed stream whose garbage holds a brace
C8_Witness ==
    /\ s_pc = "done"
    /\ WellFormed(stream)
    /\ s_totals.score >= 1
    /\ s_totals.garbage >= 1
    /\ \E i \in 3..(Len(stream) - 2) : stream[i] = "{"

(***************************************************************************)
(* Claims about day11                                                      *)
(***************************************************************************)
\* The hex grid in cube coordinates, where the six neighbours of a cell are
\* the cell plus one of these six vectors.
CubeOf(dir) ==
    CASE dir = "n" -> <<0, 1, -1>>
      [] dir = "ne" -> <<1, 0, -1>>
      [] dir = "se" -> <<1, -1, 0>>
      [] dir = "s" -> <<0, -1, 1>>
      [] dir = "sw" -> <<-1, 0, 1>>
      [] dir = "nw" -> <<-1, 1, 0>>

CubeAdd(c, d) == <<c[1] + d[1], c[2] + d[2], c[3] + d[3]>>

\* the cell reached by the first k steps of a path
RECURSIVE CubeAfter(_, _)
CubeAfter(p, k) ==
    IF k = 0 THEN <<0, 0, 0>> ELSE CubeAdd(CubeAfter(p, k - 1), CubeOf(p[k]))

\* the cells at most k steps from the start
RECURSIVE CellsWithin(_)
CellsWithin(k) ==
    IF k = 0 THEN {<<0, 0, 0>>}
    ELSE LET W == CellsWithin(k - 1)
         IN W \cup {CubeAdd(c, CubeOf(d)) : c \in W, d \in Directions}

\* the least number of steps between the start and cell c
HexDistance(c) ==
    CHOOSE k \in 0..(Abs(c[1]) + Abs(c[2]) + Abs(c[3])) :
        /\ c \in CellsWithin(k)
        /\ k > 0 => c \notin CellsWithin(k - 1)

RECURSIVE MaxOf(_)
MaxOf(S) ==
    LET x == CHOOSE y \in S : TRUE
    IN IF S = {x} THEN x
       ELSE LET m == MaxOf(S \ {x}) IN IF x > m THEN x ELSE m

ValidPath(p) == \A i \in 1..Len(p) : p[i] \in Directions

\* C9: for a path of directions the first component of compute_distance is
\* the least number of steps from the path's end back to the start.
C9_CurrentDistance ==
    (hx_pc = "done" /\ ValidPath(path)) =>
        hx_result[1] = HexDistance(CubeAfter(path, Len(path)))

\* the distance of an end that is neither on a diagonal nor straight north
\* or south of the start, where calculate_steps has to walk
C9_Witness ==
    /\ hx_pc = "done"
    /\ ValidPath(path)
    /\ hx_result[1] >= 2
    /\ LET f == CalculateFinalPosition(path)[1]
       IN f[1] # 0 /\ Abs(f[1]) # Abs(f[2])

\* C10: the second component of compute_distance is the greatest distance
\* from the start of the positions visited along the path.
C10_MaxDistance ==
    (hx_pc = "done" /\ ValidPath(path)) =>
        hx_result[2] = MaxOf({HexDistance(CubeAfter(path, k)) : k \in 0..Len(path)})

(***************************************************************************)
(* Claims about the reports of malformed input                             *)
(***************************************************************************)
Malformed(input) == \E i \in 1..Len(input) : ~input[i].matches

\* the answers of simulate to the inputs whose lines all match
SuccessfulAnswers ==
    {Simulate(input) :
        input \in UNION {[1..n -> LineKinds \ {NoMatch}] : n \in 1..MaxLines}}

\* C3, for day20::simulate: what it returns for an input with a line that
\* does not match tells the failure apart from every successful answer.
C3_MalformedIsDistinguishable ==
    (p_pc = "done" /\ Malformed(p_input)) => p_result \notin SuccessfulAnswers

(***************************************************************************)
(* Claims about Knot::tie                                                  *)
(***************************************************************************)
\* the knot after a tie of `length`: the segment reversed, the position moved
\* on by length + skip, the skip size one more
RefTie(k, length) ==
    [data |-> RefReverse(k.data, k.pos, length),
     pos |-> (k.pos + length + k.skip) % Cardinality(DOMAIN k.data),
     skip |-> k.skip + 1]

\* C17: every call tie(length) with 0 <= length <= buffer size returns, and
\* leaves the knot with the circular segment of `length` elements from the
\* position reversed, every other element as it was, the position at
\* (position + length + skip) mod size and the skip size one more.
C17_TieReverses ==
    [][t_ties' = t_ties + 1 =>
         (t_pc' # "panic" /\ t_knot' = RefTie(t_knot, t_length'))]_vars

(***************************************************************************)
(* Claims about day17                                                      *)
(***************************************************************************)
\* the element that follows element 0 in a circular buffer
AfterZero(state) ==
    LET z == CHOOSE k \in 1..Len(state) : state[k] = 0
    IN state[(z % Len(state)) + 1]

\* C11: what PseudoSpinLock::short_circuit(n) returns is the element after
\* 0 in the buffer of the SpinLock with the same step size after its n
\* insertions.
C11_PseudoIsAfterZero ==
    (spin.pc = "done" /\ pseudo.pc = "done") =>
        /\ Len(spin.state) = sl_steps + 1
        /\ pseudo.result = AfterZero(spin.state)

\* a run where the element after 0 is neither the last one inserted nor
\* the first, and differs from what SpinLock::short_circuit returns
C11_Witness ==
    /\ spin.pc = "done"
    /\ pseudo.pc = "done"
    /\ sl_steps >= 4
    /\ pseudo.result \notin {0, 1, sl_steps}
    /\ pseudo.result # spin.result

(***************************************************************************)
(* Claims about day16                                                      *)
(***************************************************************************)
\* the whole step list applied n times in sequence
RECURSIVE Repeat(_, _, _, _)
Repeat(d, steps, n, checks) ==
    IF n = 0 THEN DanceOk(d)
    ELSE LET r == ApplySteps(d, steps, 1, checks)
         IN IF r.panic THEN r ELSE Repeat(r.dance, steps, n - 1, checks)

NamesPresent(steps, size) ==
    \A k \in 1..Len(steps) :
        steps[k].type = "Partner" =>
            \E a, b \in 1..size :
                steps[k].pa = ProgramNames[a] /\ steps[k].pb = ProgramNames[b]

\* C12: for a step list that names only programs of the dance,
\* dance_repeatedly(input, n) ends as n applications of the whole step list
\* in sequence end: it returns when they cause no panic, and then the
\* programs are displayed in the same order.
C12_SameAsRepeating ==
    (d_pc \in {"done", "panic"} /\ NamesPresent(d_steps, d_size)) =>
        LET r == Repeat(NewSized(d_size), d_steps, d_repetitions, overflow_checks)
        IN /\ r.panic = (d_pc = "panic")
           /\ d_pc = "done" => Display(dance) = Display(r.dance)

\* The steps on a list that is moved physically: `order` is the list as
\* displayed.
RefSpin(order, k) ==
    SubSeq(order, Len(order) - k + 1, Len(order))
    \o SubSeq(order, 1, Len(order) - k)

RefExchange(order, a, b) ==
    [order EXCEPT ![a + 1] = order[b + 1], ![b + 1] = order[a + 1]]

RefPartner(order, x, y) ==
    [k \in 1..Len(order) |->
        IF order[k] = x THEN y ELSE IF order[k] = y THEN x ELSE order[k]]

RefStep(order, step) ==
    CASE step.type = "Spin" -> RefSpin(order, step.a)
      [] step.type = "Exchange" -> RefExchange(order, step.a, step.b)
      [] step.type = "Partner" -> RefPartner(order, step.pa, step.pb)

\* a spin of at most the size; the exchanges and partners of the model are
\* of positions and names of the dance
InDance(step, d) == step.type = "Spin" => step.a <= Len(d.programs)

\* C13: a step within the dance (a spin of at most the size) returns, and
\* changes the displayed order as the step on a physically moved list does:
\* Spin(k) brings the last k programs to the front in their order,
\* Exchange(a, b) swaps the displayed positions a and b, Partner(a, b)
\* swaps the programs named a and b.
C13_StepsOnDisplayedOrder ==
    [][InDance(st_step', st_dance) =>
          /\ st_pc' = "ready"
          /\ Display(st_dance') = RefStep(Display(st_dance), st_step')]_vars

\* an exchange has just acted on a dance that is spun and whose list is no
\* longer in its first order
C13_Witness ==
    /\ st_pc = "ready"
    /\ st_step.type = "Exchange"
    /\ st_step.a # st_step.b
    /\ st_dance.offset # 0
    /\ Len(st_dance.programs) >= 3
    /\ \E k \in 1..Len(st_dance.programs) :
          Display(st_dance)[k] # ProgramNames[k]

(***************************************************************************)
(* Claims about day6                                                       *)
(***************************************************************************)
\* One redistribution cycle, block by block: the first of the largest banks
\* is emptied and its blocks are handed out one at a time to the banks
\* after it, going round.
RECURSIVE HandOut(_, _, _)
HandOut(banks, at, blocks) ==
    IF blocks = 0 THEN banks
    ELSE LET next == (at % Len(banks)) + 1
         IN HandOut([banks EXCEPT ![next] = @ + 1], next, blocks - 1)

RefCycle(banks) ==
    LET largest == CHOOSE k \in 1..Len(banks) :
                       /\ \A m \in 1..Len(banks) : banks[m] <= banks[k]
                       /\ \A m \in 1..(k - 1) : banks[m] < banks[k]
    IN HandOut([banks EXCEPT ![largest] = 0], largest, banks[largest])

\* the configuration after k cycles
RECURSIVE RefAfter(_, _)
RefAfter(banks, k) == IF k = 0 THEN banks ELSE RefCycle(RefAfter(banks, k - 1))

\* the configuration after k cycles was there after fewer cycles
SeenEarlier(banks, k) == \E e \in 0..(k - 1) : RefAfter(banks, e) = RefAfter(banks, k)

\* C14: detect_redistribution_loop returns, and what it returns is the
\* number of cycles after which the banks are, for the first time, as they
\* were after fewer cycles.
C14_CyclesUntilRepeat ==
    /\ <>(m_pc = "done")
    /\ [](m_pc = "done" =>
            /\ SeenEarlier(m_input, cycles)
            /\ \A k \in 0..(cycles - 1) : ~SeenEarlier(m_input, k))

\* a call that returned after several cycles, the repeated configuration
\* not being the one it started with
C14_Witness ==
    /\ m_pc = "done"
    /\ cycles >= 4
    /\ memory # m_input
    /\ Len(m_input) >= 3

(***************************************************************************)
(* Claims about day5                                                       *)
(***************************************************************************)
\* the offset after a jump that used it
RefUsed(offset, complex) ==
    IF complex /\ offset >= 3 THEN offset - 1 ELSE offset + 1

\* the jumps from position `at` (counted from 1) until the position is out
\* of the maze
RECURSIVE RefJumps(_, _, _)
RefJumps(offsets, at, complex) ==
    IF at \notin DOMAIN offsets THEN 0
    ELSE 1 + RefJumps([offsets EXCEPT ![at] = RefUsed(offsets[at], complex)],
                      at + offsets[at], complex)

\* C15: both functions return the number of jumps taken from index 0 until
\* the index is out of [0, len), a jump moving by the offset at the index
\* and then changing that offset: by +1 in the simple maze; in the complex
\* maze by -1 when it was 3 or more and by +1 otherwise.
C15_JumpsToExit ==
    mz_pc = "done" => mz_steps = RefJumps(mz_input, 1, mz_complex)

\* a complex maze left after jumps that used an offset of 3 or more and
\* jumps that went back
C15_Witness ==
    /\ mz_pc = "done"
    /\ mz_complex
    /\ mz_steps >= 5
    /\ \E k \in 1..Len(mz_input) : mz_input[k] >= 3 /\ maze[k] < mz_input[k]
    /\ \E k \in 1..Len(mz_input) : mz_input[k] < 0 /\ maze[k] > mz_input[k]

(***************************************************************************)
(* Claims about the queues of processor::Environment                       *)
(***************************************************************************)
\* the link of environment e after the calls
RECURSIVE LinkAfter(_, _)
LinkAfter(calls, e) ==
    IF calls = <<>> THEN NoLink
    ELSE LET c == calls[Len(calls)]
         IN IF c.op = "link" /\ c.env = e THEN LinkTo(c.other)
            ELSE LinkAfter(SubSeq(calls, 1, Len(calls) - 1), e)

\* the values the calls so far sent to environment t, in the order of the
\* calls, each to the link its sender had at the time, and the values the
\* calls of receive on t returned
RECURSIVE SentTo(_, _)
SentTo(calls, t) ==
    IF calls = <<>> THEN <<>>
    ELSE LET c == calls[Len(calls)]
             earlier == SubSeq(calls, 1, Len(calls) - 1)
             before == SentTo(earlier, t)
         IN IF c.op = "send" /\ ~c.panic /\ LinkAfter(earlier, c.env) = LinkTo(t)
            THEN Append(before, c.value) ELSE before

RECURSIVE ReceivedBy(_, _)
ReceivedBy(calls, t) ==
    IF calls = <<>> THEN <<>>
    ELSE LET c == calls[Len(calls)]
             before == ReceivedBy(SubSeq(calls, 1, Len(calls) - 1), t)
         IN IF c.op = "receive" /\ c.env = t /\ c.result.some
            THEN Append(before, c.result.v) ELSE before

LastCall == q_calls'[Len(q_calls')]

\* C16: the values an environment has received, followed by those waiting
\* in its queue, are the values sent to it in the order they were sent; a
\* send on an environment linked to another environment returns and changes
\* the queue of that environment only, and a send with no link changes
\* nothing; a receive on an empty queue returns None and changes nothing; a
\* receive on another queue returns its oldest value.
C16_QueuesAreFifo ==
    /\ [](\A t \in DOMAIN q_envs :
            ReceivedBy(q_calls, t) \o q_envs[t].rcv = SentTo(q_calls, t))
    /\ [][/\ (LastCall.op = "send" /\ q_envs[LastCall.env].linked_env # LinkTo(LastCall.env)) =>
                /\ ~LastCall.panic
                /\ \A t \in DOMAIN q_envs :
                      /\ q_envs'[t].linked_env = q_envs[t].linked_env
                      /\ q_envs'[t].rcv =
                            IF q_envs[LastCall.env].linked_env = LinkTo(t)
                            THEN Append(q_envs[t].rcv, LastCall.value)
                            ELSE q_envs[t].rcv
          /\ LastCall.op = "receive" =>
                /\ \A t \in DOMAIN q_envs : q_envs'[t].linked_env = q_envs[t].linked_env
                /\ \A t \in DOMAIN q_envs \ {LastCall.env} :
                      q_envs'[t].rcv = q_envs[t].rcv
                /\ IF q_envs[LastCall.env].rcv = <<>>
                   THEN LastCall.result = None /\ q_envs' = q_envs
                   ELSE /\ LastCall.result = Some(Head(q_envs[LastCall.env].rcv))
                        /\ q_envs'[LastCall.env].rcv = Tail(q_envs[LastCall.env].rcv)]_vars

\* an environment has received the older of two different values sent to it,
\* the newer one still waiting in its queue, while the other environments
\* have nothing in their queues
C16_Witness ==
    \E t \in DOMAIN q_envs :
        /\ Len(ReceivedBy(q_calls, t)) = 1
        /\ Len(q_envs[t].rcv) = 1
        /\ ReceivedBy(q_calls, t)[1] # q_envs[t].rcv[1]
        /\ \A e \in DOMAIN q_envs \ {t} : q_envs[e].rcv = <<>>

====
